---------------------------- MODULE Spec2Model ----------------------------
(***************************************************************************)
(* Model of scripts/first_commit.py and of the notebook export             *)
(* "scripts/Newcomers & People Leaving.py".                                *)
(*                                                                         *)
(* Both programs build an Elasticsearch connection from a settings file,   *)
(* run one terms aggregation over the index "git" (one bucket per          *)
(* author_uuid, with the earliest hit and the maximum author_date), and    *)
(* then either print the aggregation (first_commit.py) or reshape it with  *)
(* pandas into per-year, per-organization newcomers/leaving tables and a   *)
(* chart (the notebook).                                                   *)
(*                                                                         *)
(* Representation choices:                                                 *)
(*  - a text string is a sequence of one-character strings;                *)
(*  - an epoch-milliseconds value m is held as the record                  *)
(*    [sec |-> m \div 1000, ms |-> m % 1000]: m itself (about 1.3e12)      *)
(*    does not fit the integers of the model checker;                      *)
(*  - authors, organizations and projects are small integers (their        *)
(*    order stands for the lexical order of the names);                    *)
(*  - a DataFrame is the sequence of its rows, each row a record.          *)
(***************************************************************************)
EXTENDS Integers, Sequences, FiniteSets, TLC

VARIABLES
    program,        \* "first_commit" (the script) or "notebook"
    pc,             \* position in the program
    settings,       \* contents of the settings file, once read
    connection,     \* the connection string built by create_conn
    es_conn,        \* the Elasticsearch client returned by create_conn
    index,          \* the documents of index "git" at query time
    now,            \* the server's clock at query time (epoch milliseconds)
    queried,        \* whether the query has been sent to the server
    result,         \* result.to_dict()['aggregations']['authors']['buckets']
    result_buckets, \* notebook In[4]
    authors_df,     \* notebook In[5]
    first_df,       \* notebook In[6]
    newcomers_df,   \* notebook In[7]
    last_df,        \* notebook In[8]
    leaving_df,     \* notebook In[9]
    final_df,       \* notebook In[10]
    data,           \* notebook In[13]: the list of traces
    exception,      \* the exception that ended the run, or NoException
    stdout,         \* what was written to standard output
    stderr,         \* what was written to standard error
    exit_status     \* the process exit status, or Running

vars == <<program, pc, settings, connection, es_conn, index, now, queried,
          result,
          result_buckets, authors_df, first_df, newcomers_df, last_df,
          leaving_df, final_df, data, exception, stdout, stderr, exit_status>>

-----------------------------------------------------------------------------
(* Bounds of the model.                                                    *)

\* Largest number of documents in a freely chosen index.
MaxDocs == 2

\* The large indexes hold TopN + 1 .. TopN + BigExtra organizations in one year.
BigExtra == 2

-----------------------------------------------------------------------------
(* Text.                                                                   *)

\* str + str
Concat(a, b) == a \o b

\* s occurs in t starting at position i.
OccursAt(s, t, i) ==
    /\ i >= 1
    /\ i + Len(s) - 1 <= Len(t)
    /\ SubSeq(t, i, i + Len(s) - 1) = s

-----------------------------------------------------------------------------
(* The settings file and create_conn.                                      *)

Keys == {"user", "password", "host", "port", "path"}

\* The order in which create_conn reads the keys.
KeyOrder == <<"user", "password", "host", "port", "path">>

Users == { <<"a", "l">>, <<"b", "o">> }
Passwords == { <<"p", "@", "w">> }
Hosts == { <<"e", "s", ".", "h">> }
Ports == { <<"8", "0">> }
Paths == { <<>>, <<"x", "/", "y">> }

CompleteValues ==
    { [user |-> u, password |-> pw, host |-> h, port |-> po, path |-> pa] :
        u \in Users, pw \in Passwords, h \in Hosts, po \in Ports, pa \in Paths }

\* A settings file: whether it has the section [ElasticSearch] and the
\* options of that section. A file that cannot be read parses as no section.
Restrict(f, S) == [k \in S |-> f[k]]

OneValue == [user |-> <<"a", "l">>, password |-> <<"p", "@", "w">>,
             host |-> <<"e", "s", ".", "h">>, port |-> <<"8", "0">>,
             path |-> <<"x", "/", "y">>]

SettingsFiles ==
    { [section |-> TRUE, options |-> v] : v \in CompleteValues }
    \cup { [section |-> TRUE, options |-> Restrict(OneValue, Keys \ {k})] : k \in Keys }
    \cup { [section |-> TRUE, options |-> Restrict(OneValue, {"user", "port"})] }
    \cup { [section |-> FALSE, options |-> Restrict(OneValue, {})] }

KeyError(k) == [class |-> "KeyError", arg |-> k]

\* The first key, in reading order, that the section lacks (0: none).
RECURSIVE FirstMissing(_, _)
FirstMissing(options, i) ==
    IF i > Len(KeyOrder) THEN 0
    ELSE IF KeyOrder[i] \notin DOMAIN options THEN i
    ELSE FirstMissing(options, i + 1)

SchemeText == <<"h", "t", "t", "p", "s", ":", "/", "/">>

\* Mutant of ConnectionString: port and path change places.
ConnectionStringPortPathSwapped(user, password, host, port, path) ==
    SchemeText \o user \o <<":">> \o password \o <<"@">> \o host \o <<":">>
    \o path \o <<"/">> \o port

\* "https://" + user + ":" + password + "@" + host + ":" + port + "/" + path
ConnectionString(user, password, host, port, path) ==
    LET credentials == Concat(Concat(Concat(SchemeText, user), <<":">>), password)
        address == Concat(Concat(Concat(Concat(credentials, <<"@">>), host), <<":">>), port)
    IN Concat(Concat(address, <<"/">>), path)

\* create_conn(): the value returned, or the exception raised.
create_conn(file) ==
    IF ~file.section
    THEN [raised |-> TRUE, exc |-> KeyError("ElasticSearch")]
    ELSE LET m == FirstMissing(file.options, 1) IN
         IF m # 0
         THEN [raised |-> TRUE, exc |-> KeyError(KeyOrder[m])]
         ELSE LET section == file.options
                  conn == ConnectionString(section.user, section.password,
                                           section.host, section.port, section.path)
              IN [raised |-> FALSE,
                  connection |-> conn,
                  es_read |-> [hosts |-> <<conn>>, use_ssl |-> TRUE]]

-----------------------------------------------------------------------------
(* Time: epoch milliseconds, UTC calendar years.                           *)

IsLeap(y) == (y % 4 = 0 /\ y % 100 # 0) \/ y % 400 = 0

DaysInYear(y) == IF IsLeap(y) THEN 366 ELSE 365

\* Leap years among the years 1..y.
LeapYearsThrough(y) == (y \div 4) - (y \div 100) + (y \div 400)

\* Days from 1970-01-01 to the first day of year y.
DaysBeforeYear(y) == 365 * (y - 1970) + LeapYearsThrough(y - 1) - LeapYearsThrough(1969)

\* The year that day `days` of year y, counted from 0, falls in.
RECURSIVE YearFrom(_, _)
YearFrom(days, y) ==
    IF days < DaysInYear(y) THEN y ELSE YearFrom(days - DaysInYear(y), y + 1)

\* The calendar year of an epoch second.
YearOfSecond(sec) ==
    LET days == sec \div 86400
        y0 == 1970 + (days \div 366)
    IN YearFrom(days - DaysBeforeYear(y0), y0)

\* An epoch-milliseconds value: the first and the last millisecond of year y,
\* and the first millisecond of day d (from 0) of year y.
StartOf(y) == [sec |-> DaysBeforeYear(y) * 86400, ms |-> 0]
EndOf(y) == [sec |-> DaysBeforeYear(y + 1) * 86400 - 1, ms |-> 999]
DayOf(y, d) == [sec |-> (DaysBeforeYear(y) + d) * 86400, ms |-> 0]

\* t1 < t2 on epoch milliseconds.
Before(t1, t2) == t1.sec < t2.sec \/ (t1.sec = t2.sec /\ t1.ms < t2.ms)

\* value / 1000: epoch seconds as a float, whole seconds and the fraction.
DivideBy1000(t) == [whole |-> t.sec, frac_ms |-> t.ms]

\* datetime.utcfromtimestamp(seconds): the calendar year, and the position
\* of the value within all datetimes (second, microsecond) for comparisons.
utcfromtimestamp(f) ==
    [year |-> YearOfSecond(f.whole),
     second |-> f.whole,
     microsecond |-> f.frac_ms * 1000]

\* Elasticsearch date math now/y under "lt": clock rounded down to its year.
RoundDownToYear(clock) == StartOf(YearOfSecond(clock.sec))

-----------------------------------------------------------------------------
(* Ordering rows.                                                          *)

\* a < b for two tuples of integers of the same length, first item first.
LexLess(a, b) ==
    \E i \in 1..Len(a) : a[i] < b[i] /\ \A j \in 1..(i - 1) : a[j] = b[j]

\* The stable ascending order of a sequence of keys: position r of the
\* result is the index of the r-th smallest key, equal keys in input order.
StableOrder(keys) ==
    LET n == Len(keys)
        rank(i) == 1 + Cardinality({ j \in 1..n :
                        LexLess(keys[j], keys[i])
                        \/ (keys[j] = keys[i] /\ j < i) })
    IN [r \in 1..n |-> CHOOSE i \in 1..n : rank(i) = r]

\* rows sorted by Key (a tuple of integers), stable.
SortBy(rows, Key(_)) ==
    LET ord == StableOrder([i \in 1..Len(rows) |-> Key(rows[i])])
    IN [r \in 1..Len(rows) |-> rows[ord[r]]]

\* The rows of a sequence satisfying Keep, in order.
RECURSIVE SelectRows(_, _)
SelectRows(rows, keep) ==
    IF rows = <<>> THEN <<>>
    ELSE IF Head(rows) \in keep
         THEN <<Head(rows)>> \o SelectRows(Tail(rows), keep)
         ELSE SelectRows(Tail(rows), keep)

Range(seq) == { seq[i] : i \in 1..Len(seq) }

\* The distinct values of a column, in order of first appearance (unique()).
RECURSIVE Unique(_)
Unique(seq) ==
    IF seq = <<>> THEN <<>>
    ELSE LET init == Unique(SubSeq(seq, 1, Len(seq) - 1))
             x == seq[Len(seq)]
         IN IF x \in Range(init) THEN init ELSE Append(init, x)

\* The elements of a set as a sequence, in some order.
RECURSIVE SetToSeq(_)
SetToSeq(S) ==
    IF S = {} THEN <<>>
    ELSE LET x == CHOOSE y \in S : TRUE IN <<x>> \o SetToSeq(S \ {x})

\* df.head(n)
HeadRows(rows, n) == SubSeq(rows, 1, IF Len(rows) < n THEN Len(rows) ELSE n)

-----------------------------------------------------------------------------
(* The index "git" and the clock of the Elasticsearch server.              *)

\* head(20): organizations kept per year.
TopN == 20

\* if year > 2008
YearCutoff == 2008

\* The year the query runs in.
CurrentYear == YearCutoff + 4

Nows == { DayOf(CurrentYear, 59) }

AuthorDates == { EndOf(YearCutoff), StartOf(YearCutoff + 1), DayOf(CurrentYear - 1, 180) }

CreationDates == { EndOf(CurrentYear - 1), StartOf(CurrentYear) }

Document(a, ad, gcd, org, proj) ==
    [author_uuid |-> a, author_date |-> ad, grimoire_creation_date |-> gcd,
     author_org_name |-> org, project |-> proj]

\* Authors and organizations of the freely chosen indexes.
SmallAuthors == {1, 2}
SmallOrgs == {1, 2}

SmallDocs ==
    { Document(a, ad, gcd, org, 1) :
        a \in SmallAuthors, ad \in AuthorDates, gcd \in CreationDates,
        org \in SmallOrgs }

\* Every index of at most n of the small documents.
RECURSIVE IndexesUpTo(_)
IndexesUpTo(n) ==
    IF n = 0 THEN { {} }
    ELSE LET prev == IndexesUpTo(n - 1)
         IN prev \cup { S \cup {d} : S \in prev, d \in SmallDocs }

\* A large index: n organizations, organization i with author i, each
\* author with one commit in the year before the current one; when hi # 0,
\* one more author (n + 1) in organization hi, with a commit in that same
\* year and the earlier commits `earlier` (a set of author dates).
BigIndex(n, hi, earlier) ==
    { Document(i, DayOf(CurrentYear - 1, 180), EndOf(CurrentYear - 1), i, 1) : i \in 1..n }
    \cup (IF hi = 0 THEN {}
          ELSE { Document(n + 1, DayOf(CurrentYear - 1, 200), EndOf(CurrentYear - 1), hi, 1) }
               \cup { Document(n + 1, ad, EndOf(CurrentYear - 1), hi, 1) : ad \in earlier })

BigIndexes ==
    UNION { { BigIndex(n, hi, earlier) :
                hi \in {0, 1, TopN, n},
                earlier \in { {}, {StartOf(YearCutoff + 1)}, {EndOf(YearCutoff)} } } :
            n \in (TopN + 1)..(TopN + BigExtra) }

\* Authors 1 and 2 start in year y in organization 1, author 3 a year later
\* in organization 2, where author 1 has a later commit too.
ExampleIndex(y) ==
    { Document(1, DayOf(y, 10), EndOf(y), 1, 1),
      Document(2, DayOf(y, 20), EndOf(y), 1, 1),
      Document(3, DayOf(y + 1, 30), EndOf(y + 1), 2, 1),
      Document(1, DayOf(y + 1, 40), EndOf(y + 1), 2, 1) }

ExampleIndexes == { ExampleIndex(YearCutoff), ExampleIndex(YearCutoff + 2) }

Indexes == IndexesUpTo(MaxDocs) \cup BigIndexes \cup ExampleIndexes

-----------------------------------------------------------------------------
(* The query: filter, terms buckets, top_hits and max.                     *)

\* Mutant of RangeFilter: 'lte' in place of 'lt', compared with the start
\* of the year.
RangeFilterLte(d, clock) == ~Before(RoundDownToYear(clock), d.grimoire_creation_date)

\* s.filter('range', grimoire_creation_date={'lt': 'now/y'})
RangeFilter(d, clock) == Before(d.grimoire_creation_date, RoundDownToYear(clock))

Hits(idx, clock) == { d \in idx : RangeFilter(d, clock) }

BucketDocs(docs, a) == { d \in docs : d.author_uuid = a }

\* Mutant of TopHitCandidates: the sort order is descending.
TopHitCandidatesDescending(docs) ==
    { d \in docs : \A e \in docs : ~Before(d.author_date, e.author_date) }

\* The documents a top_hits of size 1 sorted by author_date ascending may
\* return: any one with the smallest author_date (ties are broken by the
\* internal document order, which the query does not fix).
TopHitCandidates(docs) ==
    { d \in docs : \A e \in docs : ~Before(e.author_date, d.author_date) }

\* max(author_date)
MaxAuthorDate(docs) ==
    (CHOOSE d \in docs : \A e \in docs : ~Before(d.author_date, e.author_date)).author_date

\* The top_hits hit for document d: its sort value and the requested _source.
Hit(d) ==
    [sort |-> <<d.author_date>>,
     source |-> [author_date |-> d.author_date,
                 author_org_name |-> d.author_org_name,
                 author_uuid |-> d.author_uuid,
                 project |-> d.project]]

AuthorBucket(docs, a, firstDoc) ==
    [key |-> a,
     doc_count |-> Cardinality(BucketDocs(docs, a)),
     first |-> [hits |-> <<Hit(firstDoc)>>],
     last_commit |-> [value |-> MaxAuthorDate(BucketDocs(docs, a))]]

\* Every way of picking one top hit per author.
RECURSIVE TopHitChoices(_, _)
TopHitChoices(docs, authors) ==
    IF authors = {} THEN { <<>> }
    ELSE LET a == CHOOSE x \in authors : \A y \in authors : x >= y
         IN { Append(f, d) : f \in TopHitChoices(docs, authors \ {a}),
                             d \in TopHitCandidates(BucketDocs(docs, a)) }

\* terms buckets come by doc_count descending, then key ascending.
TermsOrderKey(b) == <<0 - b.doc_count, b.key>>

\* The aggregation results the query may return over idx at time clock.
Aggregate(idx, clock) ==
    LET docs == Hits(idx, clock)
        authors == { d.author_uuid : d \in docs }
    IN { SortBy([i \in 1..Len(f) |-> AuthorBucket(docs, f[i].author_uuid, f[i])],
                TermsOrderKey) : f \in TopHitChoices(docs, authors) }

-----------------------------------------------------------------------------
(* The notebook's DataFrames.                                              *)

\* Mutant of AuthorRow: last_commit is taken from the first hit.
AuthorRowLastFromFirstHit(bucket_author) ==
    LET first == bucket_author.first.hits[1]
        first_commit == DivideBy1000(first.sort[1])
    IN [first_commit |-> utcfromtimestamp(first_commit),
        last_commit |-> utcfromtimestamp(first_commit),
        author |-> bucket_author.key,
        org |-> first.source.author_org_name,
        project |-> first.source.project]

\* In[5], the loop body: the row of one bucket.
AuthorRow(bucket_author) ==
    LET first == bucket_author.first.hits[1]
        first_commit == DivideBy1000(first.sort[1])
        last_commit == DivideBy1000(bucket_author.last_commit.value)
    IN [first_commit |-> utcfromtimestamp(first_commit),
        last_commit |-> utcfromtimestamp(last_commit),
        author |-> bucket_author.key,
        org |-> first.source.author_org_name,
        project |-> first.source.project]

\* sort_values(by='first_commit', ascending=False)
FirstCommitDescending(row) ==
    <<0 - row.first_commit.second, 0 - row.first_commit.microsecond>>

\* In[5]: DataFrame.from_records(buckets), sorted. Raised for no buckets:
\* a DataFrame of no records has no column 'first_commit' to sort by.
AuthorsFrame(buckets) ==
    IF buckets = <<>>
    THEN [raised |-> TRUE, exc |-> KeyError("first_commit"), value |-> <<>>]
    ELSE [raised |-> FALSE, exc |-> KeyError(""),
          value |-> SortBy([i \in 1..Len(buckets) |-> AuthorRow(buckets[i])],
                           FirstCommitDescending)]

\* Mutant of Nunique: the distinct values of the wrong column are counted.
NuniqueOfOrg(rows) == Cardinality({ r.org : r \in rows })

\* pd.Series.nunique over the authors of a group.
Nunique(rows) == Cardinality({ r.author : r \in rows })

GroupKeyAscending(g) == <<g.year, g.org>>

\* groupby([<column>.dt.year, org]).agg({'author': nunique}).reset_index():
\* one row per (year, org) that occurs, keys ascending. column is
\* "first_commit" or "last_commit".
GroupByYearOrg(df, column) ==
    LET rows == Range(df)
        keys == { <<r[column].year, r.org>> : r \in rows }
        group(k) == { r \in rows : r[column].year = k[1] /\ r.org = k[2] }
        table == { [year |-> k[1], org |-> k[2], author |-> Nunique(group(k))] : k \in keys }
    IN SortBy(SetToSeq(table), GroupKeyAscending)

\* Mutant of YearCountDescending: the count ascending.
YearDescendingCountAscending(row) == <<0 - row.year, row.count>>

\* sort_values(by=['year', <count>], ascending=[False, False])
YearCountDescending(row) == <<0 - row.year, 0 - row.count>>

\* In[6]: first_df, with columns year, org, newcomers.
FirstFrame(df) ==
    LET grouped == GroupByYearOrg(df, "first_commit")
        counted == [i \in 1..Len(grouped) |->
                      [year |-> grouped[i].year, org |-> grouped[i].org,
                       count |-> grouped[i].author]]
        sorted == SortBy(counted, YearCountDescending)
    IN [i \in 1..Len(sorted) |->
          [year |-> sorted[i].year, org |-> sorted[i].org,
           newcomers |-> sorted[i].count]]

\* In[8]: last_df, with columns year, org, leaving.
LastFrame(df) ==
    LET grouped == GroupByYearOrg(df, "last_commit")
        counted == [i \in 1..Len(grouped) |->
                      [year |-> grouped[i].year, org |-> grouped[i].org,
                       count |-> grouped[i].author]]
        sorted == SortBy(counted, YearCountDescending)
    IN [i \in 1..Len(sorted) |->
          [year |-> sorted[i].year, org |-> sorted[i].org,
           leaving |-> sorted[i].count]]

\* if year > 2008
AfterCutoff(year) == year > YearCutoff

\* df.loc[df['year'] == year].head(20)
YearTop(df, year) ==
    HeadRows(SelectRows(df, { r \in Range(df) : r.year = year }), TopN)

\* In[7] and In[9]: the loop over df['year'].unique(), concatenating the top
\* rows of every year after the cutoff.
RECURSIVE TopPerYearLoop(_, _, _)
TopPerYearLoop(df, years, acc) ==
    IF years = <<>> THEN acc
    ELSE TopPerYearLoop(df, Tail(years),
                        IF AfterCutoff(Head(years))
                        THEN acc \o YearTop(df, Head(years))
                        ELSE acc)

TopPerYear(df) ==
    TopPerYearLoop(df, Unique([i \in 1..Len(df) |-> df[i].year]), <<>>)

\* sort_values(by=['year', 'org'], ascending=[False, False])
YearOrgDescending(row) == <<0 - row.year, 0 - row.org>>

\* Mutant of OuterMerge: how='left'.
LeftMerge(left, right) ==
    LET L == Range(left)
        R == Range(right)
        match(l, r) == l.year = r.year /\ l.org = r.org
    IN { [year |-> p[1].year, org |-> p[1].org,
          newcomers |-> <<p[1].newcomers>>, leaving |-> <<p[2].leaving>>] :
            p \in { q \in L \X R : match(q[1], q[2]) } }
       \cup { [year |-> l.year, org |-> l.org,
               newcomers |-> <<l.newcomers>>, leaving |-> <<>>] :
                 l \in { x \in L : \A r \in R : ~match(x, r) } }

\* An outer merge on ['year', 'org']: a row per pair of matching rows, and a
\* row per unmatched row of either side with the other side's column
\* missing (<<>> stands for NaN, <<v>> for the value v).
OuterMerge(left, right) ==
    LET L == Range(left)
        R == Range(right)
        match(l, r) == l.year = r.year /\ l.org = r.org
        both == { [year |-> p[1].year, org |-> p[1].org,
                   newcomers |-> <<p[1].newcomers>>, leaving |-> <<p[2].leaving>>] :
                     p \in { q \in L \X R : match(q[1], q[2]) } }
        leftOnly == { [year |-> l.year, org |-> l.org,
                       newcomers |-> <<l.newcomers>>, leaving |-> <<>>] :
                         l \in { x \in L : \A r \in R : ~match(x, r) } }
        rightOnly == { [year |-> r.year, org |-> r.org,
                        newcomers |-> <<>>, leaving |-> <<r.leaving>>] :
                          r \in { x \in R : \A l \in L : ~match(l, x) } }
    IN both \cup leftOnly \cup rightOnly

\* fillna(0) on one cell.
FillNa(cell) == IF cell = <<>> THEN 0 ELSE cell[1]

\* In[10]: merge, fillna(0), sort. The merge raises when a side has no
\* column 'year', which is the case of a DataFrame() nothing was
\* concatenated to.
FinalFrame(newcomers, leaving) ==
    IF newcomers = <<>> \/ leaving = <<>>
    THEN [raised |-> TRUE, exc |-> KeyError("year"), value |-> <<>>]
    ELSE LET merged == SetToSeq(OuterMerge(newcomers, leaving))
             filled == [i \in 1..Len(merged) |->
                          [year |-> merged[i].year, org |-> merged[i].org,
                           newcomers |-> FillNa(merged[i].newcomers),
                           leaving |-> FillNa(merged[i].leaving)]]
         IN [raised |-> FALSE, exc |-> KeyError(""),
             value |-> SortBy(filled, YearOrgDescending)]

-----------------------------------------------------------------------------
(* The chart.                                                              *)

\* Mutant of ChartPoint: the difference is taken the other way round.
ChartPointLeavingMinusNewcomers(final, org, year) ==
    LET cell == SelectRows(final, { r \in Range(final) : r.org = org /\ r.year = year })
    IN IF cell # <<>>
       THEN [n |-> cell[1].newcomers, l |-> cell[1].leaving,
             s |-> cell[1].leaving - cell[1].newcomers]
       ELSE [n |-> 0, l |-> 0, s |-> 0]

\* In[13], the body of the inner loop: n, l and s for one org and year.
ChartPoint(final, org, year) ==
    LET ofOrg == SelectRows(final, { r \in Range(final) : r.org = org })
        cell == SelectRows(final, { r \in Range(final) : r.org = org /\ r.year = year })
    IN IF year \in Range(Unique([i \in 1..Len(ofOrg) |-> ofOrg[i].year]))
       THEN [n |-> cell[1].newcomers, l |-> cell[1].leaving,
             s |-> cell[1].newcomers - cell[1].leaving]
       ELSE [n |-> 0, l |-> 0, s |-> 0]

Scatter(x, y, name) == [x |-> x, y |-> y, mode |-> "lines+markers", name |-> name]

\* The three traces appended for one org.
OrgTraces(final, years, org) ==
    LET points == [i \in 1..Len(years) |-> ChartPoint(final, org, years[i])]
        newcomers == [i \in 1..Len(years) |-> points[i].n]
        leaving == [i \in 1..Len(years) |-> points[i].l]
        both == [i \in 1..Len(years) |-> points[i].s]
    IN << Scatter(years, newcomers, <<org, " newcomers">>),
          Scatter(years, leaving, <<org, " leaving">>),
          Scatter(years, both, <<org, "">>) >>

RECURSIVE ChartLoop(_, _, _)
ChartLoop(final, years, orgs) ==
    IF orgs = <<>> THEN <<>>
    ELSE OrgTraces(final, years, Head(orgs)) \o ChartLoop(final, years, Tail(orgs))

\* In[13]: data.
ChartData(final) ==
    ChartLoop(final,
              Unique([i \in 1..Len(final) |-> final[i].year]),
              Unique([i \in 1..Len(final) |-> final[i].org]))

-----------------------------------------------------------------------------
(* Exceptions and the top level of first_commit.py.                        *)

NoException == [class |-> "", arg |-> ""]

KeyboardInterrupt == [class |-> "KeyboardInterrupt", arg |-> ""]

\* The classes `except RuntimeError` catches: RuntimeError and its
\* subclasses. KeyError and the Elasticsearch client's errors are not among
\* them.
RuntimeErrorClasses == {"RuntimeError", "NotImplementedError", "RecursionError"}

\* What s.execute() raises when the query fails.
QueryErrors == { [class |-> "ConnectionError", arg |-> "N/A"],
                 [class |-> "TransportError", arg |-> "N/A"] }

\* An exception no handler catches: the interpreter prints the traceback
\* on standard error and exits with status 1.
Uncaught(exc) ==
    [handler |-> "none", stdout |-> <<>>,
     stderr |-> <<[kind |-> "Traceback", exc |-> exc]>>, status |-> 1]

\* The try statement around main() in first_commit.py.
TopLevel(exc) ==
    IF exc.class = "KeyboardInterrupt"
    THEN [handler |-> "KeyboardInterrupt",
          stdout |-> <<[kind |-> "Received Ctrl-C or other break signal. Exiting."]>>,
          stderr |-> <<>>, status |-> 0]
    ELSE IF exc.class \in RuntimeErrorClasses
    THEN [handler |-> "RuntimeError", stdout |-> <<>>,
          stderr |-> <<[kind |-> "Error: %s", exc |-> exc]>>, status |-> 1]
    ELSE Uncaught(exc)

\* exc is raised at the current position: the script's try statement
\* decides; the notebook export has no handler.
Raise(exc) ==
    LET h == IF program = "first_commit" THEN TopLevel(exc) ELSE Uncaught(exc)
    IN /\ exception' = exc
       /\ stdout' = stdout \o h.stdout
       /\ stderr' = stderr \o h.stderr
       /\ exit_status' = <<h.status>>
       /\ pc' = IF program = "first_commit" THEN "exit" ELSE "error"

Running == <<>>

-----------------------------------------------------------------------------
(* The programs.                                                           *)

Init ==
    /\ program \in {"first_commit", "notebook"}
    /\ pc = "create_conn"
    /\ settings = [read |-> FALSE, section |-> FALSE, options |-> Restrict(OneValue, {})]
    /\ connection = <<>>
    /\ es_conn = [hosts |-> <<>>, use_ssl |-> FALSE]
    /\ index = {}
    /\ now = StartOf(1970)
    /\ queried = FALSE
    /\ result = <<>>
    /\ result_buckets = <<>>
    /\ authors_df = <<>>
    /\ first_df = <<>>
    /\ newcomers_df = <<>>
    /\ last_df = <<>>
    /\ leaving_df = <<>>
    /\ final_df = <<>>
    /\ data = <<>>
    /\ exception = NoException
    /\ stdout = <<>>
    /\ stderr = <<>>
    /\ exit_status = Running

dataframes == <<result_buckets, authors_df, first_df, newcomers_df, last_df,
                leaving_df, final_df, data>>

\* es_conn = create_conn()
CreateConn ==
    /\ pc = "create_conn"
    /\ \E file \in SettingsFiles :
         LET r == create_conn(file) IN
           /\ settings' = [read |-> TRUE, section |-> file.section,
                           options |-> file.options]
           /\ IF r.raised
              THEN /\ Raise(r.exc)
                   /\ UNCHANGED <<connection, es_conn>>
              ELSE /\ connection' = r.connection
                   /\ es_conn' = r.es_read
                   /\ pc' = "search"
                   /\ UNCHANGED <<exception, stdout, stderr, exit_status>>
    /\ UNCHANGED <<program, index, now, queried, result, dataframes>>

\* s = Search(...) ... result = s.execute(), the query answered.
Execute ==
    /\ pc = "search"
    /\ \E idx \in Indexes, t \in Nows :
         /\ index' = idx
         /\ now' = t
         /\ result' \in Aggregate(idx, t)
    /\ queried' = TRUE
    /\ pc' = IF program = "first_commit" THEN "print" ELSE "In4"
    /\ UNCHANGED <<program, settings, connection, es_conn, dataframes, exception,
                   stdout, stderr, exit_status>>

\* result = s.execute(), the query failing.
ExecuteFails ==
    /\ pc = "search"
    /\ \E exc \in QueryErrors : Raise(exc)
    /\ queried' = TRUE
    /\ UNCHANGED <<program, settings, connection, es_conn, index, now, result,
                   dataframes>>

\* print(json.dumps(result.to_dict()['aggregations'], ...)), and main returns.
PrintResult ==
    /\ program = "first_commit"
    /\ pc = "print"
    /\ stdout' = Append(stdout, [kind |-> "aggregations", authors |-> result])
    /\ exit_status' = <<0>>
    /\ pc' = "exit"
    /\ UNCHANGED <<program, settings, connection, es_conn, index, now, queried, result,
                   dataframes, exception, stderr>>

\* Ctrl-C while main() runs.
Interrupt ==
    /\ program = "first_commit"
    /\ pc \in {"create_conn", "search", "print"}
    /\ Raise(KeyboardInterrupt)
    /\ UNCHANGED <<program, settings, connection, es_conn, index, now, queried, result,
                   dataframes>>

\* In[4]: result_buckets = result.to_dict()['aggregations']['authors']['buckets']
In4 ==
    /\ program = "notebook"
    /\ pc = "In4"
    /\ result_buckets' = result
    /\ pc' = "In5"
    /\ UNCHANGED <<program, settings, connection, es_conn, index, now, queried, result,
                   authors_df, first_df, newcomers_df, last_df, leaving_df,
                   final_df, data, exception, stdout, stderr, exit_status>>

\* In[5]: authors_df
In5 ==
    /\ pc = "In5"
    /\ LET r == AuthorsFrame(result_buckets) IN
         IF r.raised
         THEN /\ Raise(r.exc)
              /\ UNCHANGED authors_df
         ELSE /\ authors_df' = r.value
              /\ pc' = "In6"
              /\ UNCHANGED <<exception, stdout, stderr, exit_status>>
    /\ UNCHANGED <<program, settings, connection, es_conn, index, now, queried, result,
                   result_buckets, first_df, newcomers_df, last_df, leaving_df,
                   final_df, data>>

\* In[6]: first_df
In6 ==
    /\ pc = "In6"
    /\ first_df' = FirstFrame(authors_df)
    /\ pc' = "In7"
    /\ UNCHANGED <<program, settings, connection, es_conn, index, now, queried, result,
                   result_buckets, authors_df, newcomers_df, last_df, leaving_df,
                   final_df, data, exception, stdout, stderr, exit_status>>

\* In[7]: newcomers_df
In7 ==
    /\ pc = "In7"
    /\ newcomers_df' = TopPerYear(first_df)
    /\ pc' = "In8"
    /\ UNCHANGED <<program, settings, connection, es_conn, index, now, queried, result,
                   result_buckets, authors_df, first_df, last_df, leaving_df,
                   final_df, data, exception, stdout, stderr, exit_status>>

\* In[8]: last_df
In8 ==
    /\ pc = "In8"
    /\ last_df' = LastFrame(authors_df)
    /\ pc' = "In9"
    /\ UNCHANGED <<program, settings, connection, es_conn, index, now, queried, result,
                   result_buckets, authors_df, first_df, newcomers_df, leaving_df,
                   final_df, data, exception, stdout, stderr, exit_status>>

\* In[9]: leaving_df
In9 ==
    /\ pc = "In9"
    /\ leaving_df' = TopPerYear(last_df)
    /\ pc' = "In10"
    /\ UNCHANGED <<program, settings, connection, es_conn, index, now, queried, result,
                   result_buckets, authors_df, first_df, newcomers_df, last_df,
                   final_df, data, exception, stdout, stderr, exit_status>>

\* In[10]: final_df
In10 ==
    /\ pc = "In10"
    /\ LET r == FinalFrame(newcomers_df, leaving_df) IN
         IF r.raised
         THEN /\ Raise(r.exc)
              /\ UNCHANGED final_df
         ELSE /\ final_df' = r.value
              /\ pc' = "In13"
              /\ UNCHANGED <<exception, stdout, stderr, exit_status>>
    /\ UNCHANGED <<program, settings, connection, es_conn, index, now, queried, result,
                   result_buckets, authors_df, first_df, newcomers_df, last_df,
                   leaving_df, data>>

\* In[13]: data, and the chart drawn from it.
In13 ==
    /\ pc = "In13"
    /\ data' = ChartData(final_df)
    /\ stdout' = Append(stdout, [kind |-> "evolution_chart.html"])
    /\ exit_status' = <<0>>
    /\ pc' = "done"
    /\ UNCHANGED <<program, settings, connection, es_conn, index, now, queried, result,
                   result_buckets, authors_df, first_df, newcomers_df, last_df,
                   leaving_df, final_df, exception, stderr>>

Next ==
    \/ CreateConn
    \/ Execute
    \/ ExecuteFails
    \/ PrintResult
    \/ Interrupt
    \/ In4
    \/ In5
    \/ In6
    \/ In7
    \/ In8
    \/ In9
    \/ In10
    \/ In13

Spec == Init /\ [][Next]_vars

-----------------------------------------------------------------------------
(* Properties.                                                             *)

\* Positions of the program at which a value has been computed.
AfterCells == {"In4", "In5", "In6", "In7", "In8", "In9", "In10", "In13", "done"}

Answered ==
    \/ pc \in {"print"} \cup AfterCells
    \/ pc \in {"exit", "error"} /\ queried /\ exception \notin QueryErrors

AuthorsBuilt ==
    \/ pc \in AfterCells \ {"In4", "In5"}
    \/ pc = "error" /\ exception = KeyError("year")

FirstBuilt == AuthorsBuilt /\ pc # "In6"

NewcomersBuilt == FirstBuilt /\ pc # "In7"

LastBuilt == NewcomersBuilt /\ pc # "In8"

LeavingBuilt == LastBuilt /\ pc # "In9"

FinalBuilt == pc \in {"In13", "done"}

SettingsComplete == settings.read /\ settings.section /\ DOMAIN settings.options = Keys

\* C6: whenever create_conn has read a settings file that has the section
\* and all five keys, the connection string it built is the text "https://",
\* user, ":", password, "@", host, ":", port, "/", path joined in this
\* order; user, host, port and path each occur in it verbatim, one after the
\* other, and the client was created for exactly this string.
C6_ConnectionString ==
    SettingsComplete =>
        LET o == settings.options
            expected == <<"h", "t", "t", "p", "s", ":", "/", "/">> \o o.user \o <<":">>
                        \o o.password \o <<"@">> \o o.host \o <<":">> \o o.port
                        \o <<"/">> \o o.path
            iu == 9
            ih == iu + Len(o.user) + 1 + Len(o.password) + 1
            ip == ih + Len(o.host) + 1
            ia == ip + Len(o.port) + 1
        IN /\ connection = expected
           /\ es_conn.hosts = <<connection>>
           /\ OccursAt(o.user, connection, iu)
           /\ OccursAt(o.host, connection, ih)
           /\ OccursAt(o.port, connection, ip)
           /\ OccursAt(o.path, connection, ia)
           /\ ia + Len(o.path) - 1 = Len(connection)

\* C6 witness: a connection built from a complete file with a non-empty path.
C6_Witness ==
    /\ SettingsComplete
    /\ pc = "search"
    /\ settings.options.path # <<>>
    /\ settings.options.user = <<"b", "o">>
    /\ Len(connection) > 8

\* C8 as stated: a run of first_commit.py whose settings file lacks the
\* section or one of the five keys ends in the top level's RuntimeError
\* handler ("Error: ..." on standard error, exit status 1) with no client
\* created, no query sent and nothing printed.
C8_MissingKeyHandledAsRuntimeError ==
    (program = "first_commit" /\ settings.read /\ ~SettingsComplete) =>
        /\ pc = "exit"
        /\ exception.class = "KeyError"
        /\ es_conn.hosts = <<>>
        /\ ~queried
        /\ stdout = <<>>
        /\ exit_status = <<1>>
        /\ stderr = <<[kind |-> "Error: %s", exc |-> exception]>>

\* The documents the range filter lets through, stated on calendar years:
\* those created in a year before the year of the server's clock.
YearOfMillis(t) == YearOfSecond(t.sec)

CreatedBeforeCurrentYear(d) == YearOfMillis(d.grimoire_creation_date) < YearOfMillis(now)

Queried == { d \in index : CreatedBeforeCurrentYear(d) }

QueriedOf(a) == { d \in Queried : d.author_uuid = a }

\* t1 <= t2 on epoch milliseconds.
NotAfter(t1, t2) == t1.sec < t2.sec \/ (t1.sec = t2.sec /\ t1.ms <= t2.ms)

\* C3: in every answer of the query, each bucket reports exactly one first
\* hit, which is a queried document of the bucket's author with the smallest
\* author_date among them, and last_commit is their largest author_date;
\* there is one bucket per author with a queried document, and every row of
\* authors_df has first_commit <= last_commit, one row per author.
C3_FirstIsMinLastIsMax ==
    /\ Answered =>
         /\ \A i \in 1..Len(result) :
              LET b == result[i]
                  docs == QueriedOf(b.key)
              IN /\ docs # {}
                 /\ Len(b.first.hits) = 1
                 /\ \E d \in docs :
                      /\ b.first.hits[1].sort = <<d.author_date>>
                      /\ b.first.hits[1].source.author_org_name = d.author_org_name
                      /\ b.first.hits[1].source.author_uuid = b.key
                 /\ \A d \in docs : NotAfter(b.first.hits[1].sort[1], d.author_date)
                 /\ \E d \in docs : b.last_commit.value = d.author_date
                 /\ \A d \in docs : NotAfter(d.author_date, b.last_commit.value)
         /\ \A d \in Queried :
              Cardinality({ i \in 1..Len(result) : result[i].key = d.author_uuid }) = 1
    /\ AuthorsBuilt =>
         /\ \A i \in 1..Len(authors_df) :
              LET r == authors_df[i]
              IN \/ r.first_commit.second < r.last_commit.second
                 \/ /\ r.first_commit.second = r.last_commit.second
                    /\ r.first_commit.microsecond <= r.last_commit.microsecond
         /\ \A d \in Queried :
              Cardinality({ i \in 1..Len(authors_df) :
                              authors_df[i].author = d.author_uuid }) = 1
         /\ Len(authors_df) = Cardinality({ d.author_uuid : d \in Queried })

\* C3 witness: authors_df holds an author with two queried commits in
\* different years, the later one in another organization, and a second
\* author.
C3_Witness ==
    /\ AuthorsBuilt
    /\ Len(authors_df) >= 2
    /\ \E i \in 1..Len(authors_df) :
         /\ authors_df[i].first_commit.year < authors_df[i].last_commit.year
         /\ Cardinality(QueriedOf(authors_df[i].author)) >= 2
         /\ \E d \in QueriedOf(authors_df[i].author) :
              d.author_org_name # authors_df[i].org

\* The documents created in the current year or later.
Excluded == index \ Queried

\* C4: a document whose grimoire_creation_date is at or after the start of
\* the current year contributes to no bucket: every bucket counts, and takes
\* its first hit and its last_commit from, the documents created before the
\* current year only; an author with no such document has no bucket; and the
\* answer is one the query could give over the index without the excluded
\* documents, so that no table or count derived from it depends on them.
C4_CurrentYearExcluded ==
    Answered =>
        /\ \A d \in Excluded :
             ~Before(d.grimoire_creation_date, StartOf(YearOfMillis(now)))
        /\ \A i \in 1..Len(result) :
             LET b == result[i]
                 old == QueriedOf(b.key)
             IN /\ b.doc_count = Cardinality(old)
                /\ \E d \in old : b.first.hits[1].sort[1] = d.author_date
                /\ \E d \in old : b.last_commit.value = d.author_date
        /\ \A d \in Excluded :
             QueriedOf(d.author_uuid) = {} =>
                 \A i \in 1..Len(result) : result[i].key # d.author_uuid
        /\ result \in Aggregate(Queried, now)

\* C4 witness: the notebook has finished over an index in which an author has
\* a commit created on the first millisecond of the current year with an
\* author_date earlier than that of the author's only other commit.
C4_Witness ==
    /\ pc = "done"
    /\ \E d \in Excluded :
         /\ d.grimoire_creation_date = StartOf(YearOfMillis(now))
         /\ QueriedOf(d.author_uuid) # {}
         /\ \A e \in QueriedOf(d.author_uuid) : Before(d.author_date, e.author_date)

\* The authors of authors_df whose first (last) commit is in year y, in org o.
FirstSeenIn(y, o) ==
    { authors_df[i].author : i \in { j \in 1..Len(authors_df) :
        authors_df[j].first_commit.year = y /\ authors_df[j].org = o } }

LastSeenIn(y, o) ==
    { authors_df[i].author : i \in { j \in 1..Len(authors_df) :
        authors_df[j].last_commit.year = y /\ authors_df[j].org = o } }

RECURSIVE SumOf(_)
SumOf(seq) == IF seq = <<>> THEN 0 ELSE Head(seq) + SumOf(Tail(seq))

NewcomersOfOrg(o) ==
    SumOf([i \in 1..Len(first_df) |->
             IF first_df[i].org = o THEN first_df[i].newcomers ELSE 0])

LeavingOfOrg(o) ==
    SumOf([i \in 1..Len(last_df) |->
             IF last_df[i].org = o THEN last_df[i].leaving ELSE 0])

TopFilterOk(filtered, full, col) ==
    LET kept == Range(filtered)
        all == Range(full)
        ofYear(rows, y) == { r \in rows : r.year = y }
    IN /\ \A r \in kept : r.year > 2008
       /\ kept \subseteq all
       /\ Len(filtered) = Cardinality(kept)
       /\ \A y \in { r.year : r \in all } :
            y > 2008 =>
              /\ Cardinality(ofYear(kept, y)) <= 20
              /\ Cardinality(ofYear(kept, y)) =
                   (IF Cardinality(ofYear(all, y)) <= 20
                    THEN Cardinality(ofYear(all, y)) ELSE 20)
              /\ \A r \in ofYear(all, y) \ kept, k \in ofYear(kept, y) : r[col] <= k[col]

PairsOf(df) == { <<df[i].year, df[i].org>> : i \in 1..Len(df) }

FirstRowOfYear(y) == CHOOSE i \in 1..Len(final_df) :
    final_df[i].year = y /\ \A j \in 1..(i - 1) : final_df[j].year # y

FirstRowOfOrg(o) == CHOOSE i \in 1..Len(final_df) :
    final_df[i].org = o /\ \A j \in 1..(i - 1) : final_df[j].org # o

\* xs holds each member of S once, in the order given by Pos.
ListsOnceInOrder(xs, S, Pos(_)) ==
    /\ Range(xs) = S
    /\ Len(xs) = Cardinality(S)
    /\ \A a, b \in 1..Len(xs) : a < b => Pos(xs[a]) < Pos(xs[b])

\* C9: the chart data holds three traces per distinct org of final_df, named
\* org + " newcomers", org + " leaving" and org, the orgs in their order of
\* first appearance; each trace has one point per distinct year of final_df,
\* in the order the years appear there; a point is the newcomers, the
\* leaving and their difference of the final_df row of that (year, org), and
\* 0, 0 and 0 when final_df has no such row.
C9_ThreeTracesPerOrg ==
    pc = "done" =>
        LET years == { final_df[i].year : i \in 1..Len(final_df) }
            orgs == { final_df[i].org : i \in 1..Len(final_df) }
            n == Cardinality(orgs)
        IN /\ Len(data) = 3 * n
           /\ ListsOnceInOrder([k \in 1..n |-> data[3 * k].name[1]], orgs, FirstRowOfOrg)
           /\ \A k \in 1..n :
                LET tn == data[3 * k - 2]
                    tl == data[3 * k - 1]
                    tb == data[3 * k]
                    o == tb.name[1]
                IN /\ tn.name = <<o, " newcomers">>
                   /\ tl.name = <<o, " leaving">>
                   /\ tb.name = <<o, "">>
                   /\ \A t \in {tn, tl, tb} :
                        /\ ListsOnceInOrder(t.x, years, FirstRowOfYear)
                        /\ Len(t.y) = Len(t.x)
                        /\ t.mode = "lines+markers"
                   /\ \A j \in 1..Len(tb.x) :
                        LET rows == { r \in Range(final_df) :
                                        r.org = o /\ r.year = tb.x[j] }
                        IN /\ tb.y[j] = tn.y[j] - tl.y[j]
                           /\ IF rows = {}
                              THEN tn.y[j] = 0 /\ tl.y[j] = 0 /\ tb.y[j] = 0
                              ELSE \A r \in rows :
                                     tn.y[j] = r.newcomers /\ tl.y[j] = r.leaving

\* C9 witness: a chart of at least two orgs and two years with a point of a
\* missing (year, org) and a point whose difference is below zero.
C9_Witness ==
    /\ pc = "done"
    /\ Len(data) >= 6
    /\ Len(data[3].x) >= 2
    /\ \E k \in 1..(Len(data) \div 3), j \in 1..Len(data[3].x) :
         /\ data[3 * k].y[j] < 0
         /\ data[3 * k - 1].y[j] = 2
    /\ \E k \in 1..(Len(data) \div 3), j \in 1..Len(data[3].x) :
         \A r \in Range(final_df) :
             ~(r.org = data[3 * k].name[1] /\ r.year = data[3 * k].x[j])

\* The organization of the first hit reported for author a.
FirstHitOrg(a) ==
    LET i == CHOOSE j \in 1..Len(result) : result[j].key = a
    IN result[i].first.hits[1].source.author_org_name

AuthorsOfFrame == { authors_df[i].author : i \in 1..Len(authors_df) }

YearsOfFrame ==
    { authors_df[i].first_commit.year : i \in 1..Len(authors_df) }
    \cup { authors_df[i].last_commit.year : i \in 1..Len(authors_df) }

OrgsQueried == { d.author_org_name : d \in Queried }

LatestYear(docs) ==
    YearOfMillis((CHOOSE d \in docs : \A e \in docs : NotAfter(e.author_date, d.author_date)).author_date)

EarliestYear(docs) ==
    YearOfMillis((CHOOSE d \in docs : \A e \in docs : NotAfter(d.author_date, e.author_date)).author_date)

\* C7 as stated: an author is counted as a leaver for (year, org) exactly
\* when the latest of the author's queried commits in that org falls in that
\* year, and as a newcomer exactly when the earliest of them does.
C7_CountedPerOrganization ==
    LastBuilt =>
        \A a \in AuthorsOfFrame, y \in YearsOfFrame, o \in OrgsQueried :
            LET inOrg == { d \in QueriedOf(a) : d.author_org_name = o }
            IN /\ a \in LastSeenIn(y, o) <=> (inOrg # {} /\ LatestYear(inOrg) = y)
               /\ a \in FirstSeenIn(y, o) <=> (inOrg # {} /\ EarliestYear(inOrg) = y)

\* C7 amended: an author is counted as a leaver for (year, org) exactly when
\* the latest of all the author's queried commits falls in that year and org
\* is the organization of the author's reported first hit, which is one of
\* the author's earliest queried commits; and as a newcomer exactly when the
\* earliest of all the author's queried commits falls in that year and org is
\* that same organization. The counts of last_df and first_df are the
\* numbers of the authors so counted.
C7_CountedUnderFirstOrganization ==
    LastBuilt =>
        /\ \A a \in AuthorsOfFrame :
             /\ QueriedOf(a) # {}
             /\ \E d \in QueriedOf(a) :
                  /\ d.author_org_name = FirstHitOrg(a)
                  /\ \A e \in QueriedOf(a) : NotAfter(d.author_date, e.author_date)
             /\ \A y \in YearsOfFrame, o \in OrgsQueried :
                  /\ a \in LastSeenIn(y, o)
                       <=> (LatestYear(QueriedOf(a)) = y /\ o = FirstHitOrg(a))
                  /\ a \in FirstSeenIn(y, o)
                       <=> (EarliestYear(QueriedOf(a)) = y /\ o = FirstHitOrg(a))
        /\ \A r \in Range(last_df) : r.leaving = Cardinality(LastSeenIn(r.year, r.org))
        /\ \A r \in Range(first_df) : r.newcomers = Cardinality(FirstSeenIn(r.year, r.org))

\* C7 witness: an author whose queried commits are in two organizations, the
\* latest in a later year and in another organization than the earliest.
C7_Witness ==
    /\ LastBuilt
    /\ \E a \in AuthorsOfFrame :
         \E d, e \in QueriedOf(a) :
             /\ d.author_org_name # e.author_org_name
             /\ YearOfMillis(d.author_date) < YearOfMillis(e.author_date)
             /\ a \in LastSeenIn(YearOfMillis(e.author_date), d.author_org_name)

=============================================================================
